---- MODULE Spec2Model ----
(***************************************************************************)
(* Model of `seqvars ingest` (src/src/seqvars/ingest/mod.rs): the FORMAT   *)
(* key table, transform_format_value, copy_format and the record loop of   *)
(* process_variants; and of the background database records of sv_query    *)
(* (src/src/sv_query/dbrecords.rs), at the end of the module.              *)
(*                                                                         *)
(* Conventions.  An Option<T> is a sequence of length at most one: <<>> is *)
(* None and <<x>> is Some(x).  A string that the code inspects character   *)
(* by character (FORMAT/GT) is a sequence of one-character strings.  A     *)
(* sample value is a record tagged by its noodles variant.                 *)
(***************************************************************************)
EXTENDS Integers, Sequences, FiniteSets, TLC

VARIABLES
    max_var_count,        \* args.max_var_count : Option<usize>
    sample_names,         \* sample names of the output and of the input header
    source,               \* the records input_reader yields, in order
    idx_output_to_input,  \* the sample table built before the loop
    known_format_keys,    \* KNOWN_FORMAT_KEYS: None until get_or_init has run
    rec_no,               \* number of records `records.next()` has yielded so far
    pc,                   \* position in process_variants
    allele_idx,           \* number of alleles of the current record already iterated
    total_written,        \* the counter `total_written`
    output,               \* the records handed to output_writer, in order
    attempts,             \* history: <<record no, allele_no>> of every loop-body entry
    lookups,              \* history: every store query issued
    err,                  \* Some(error) once the run has failed
    stop_reason,          \* why the loop was left
    file_record,          \* sv_query: Some(<<kind, FileRecord>>) read from a TSV file
    in_memory             \* sv_query: Some(result of to_in_memory) once it has run

vars == <<max_var_count, sample_names, source, idx_output_to_input,
          known_format_keys, rec_no, pc, allele_idx, total_written, output,
          attempts, lookups, err, stop_reason, file_record, in_memory>>

(***************************************************************************)
(* Bounds of the model.                                                    *)
(***************************************************************************)
MaxRecords == 2
MaxAlts == 2
MaxLimit == 2
MaxGtLen == 3
MaxArrayLen == 3
MaxSamples == 2    \* samples in a header

(***************************************************************************)
(* Option and sample values.                                               *)
(***************************************************************************)
None == <<>>
Some(x) == <<x>>
IsSome(o) == Len(o) = 1
Unwrap(o) == o[1]

StringV(s) == [t |-> "String", s |-> s]
IntegerV(i) == [t |-> "Integer", i |-> i]
FloatV(f) == [t |-> "Float", f |-> f]
ArrayIntegerV(a) == [t |-> "ArrayInteger", a |-> a]
ArrayFloatV(a) == [t |-> "ArrayFloat", fa |-> a]

\* Index of the first occurrence of x in sequence s, 0 when absent.
IndexOf(s, x) ==
    IF \E i \in 1..Len(s) : s[i] = x
    THEN CHOOSE i \in 1..Len(s) : s[i] = x /\ \A j \in 1..(i - 1) : s[j] # x
    ELSE 0

Contains(s, x) == \E i \in 1..Len(s) : s[i] = x

(***************************************************************************)
(* KnownFormatKeys::default and known_to_output.                           *)
(***************************************************************************)
output_keys == <<"GT", "GQ", "DP", "AD", "PS">>
known_keys == <<"GT", "GQ", "DP", "AD", "PS", "SQ">>
known_to_output_map == [k \in {"SQ"} |-> "GQ"]

\* The value KnownFormatKeys::default() constructs.
KnownFormatKeys_default ==
    [output_keys |-> output_keys, known_keys |-> known_keys,
     known_to_output_map |-> known_to_output_map]

known_to_output_identity(kfk, key) == key

known_to_output(kfk, key) ==
    IF key \in DOMAIN kfk.known_to_output_map THEN kfk.known_to_output_map[key] ELSE key

(***************************************************************************)
(* format!("{}", allele_no): the decimal digits of a natural number.       *)
(***************************************************************************)
DigitChars == <<"0", "1", "2", "3", "4", "5", "6", "7", "8", "9">>

RECURSIVE ToDecimal(_)
ToDecimal(n) ==
    IF n < 10 THEN <<DigitChars[n + 1]>>
    ELSE ToDecimal(n \div 10) \o <<DigitChars[(n % 10) + 1]>>

(***************************************************************************)
(* GT_RE = ([^\|]+)([/|])([^\|]+), used with Regex::captures: an           *)
(* unanchored leftmost search; group 1 and group 3 are greedy.             *)
(***************************************************************************)
NotBar(c) == c # "|"
IsSep(c) == c \in {"/", "|"}

\* gt[a..b] consists of characters of the class [^\|] only.
AllNotBar(gt, a, b) == \A i \in a..b : NotBar(gt[i])

\* A match starting at s whose group 1 ends at e exists.
MatchesAt(gt, s, e) ==
    /\ s <= e
    /\ e + 2 <= Len(gt)
    /\ AllNotBar(gt, s, e)
    /\ IsSep(gt[e + 1])
    /\ NotBar(gt[e + 2])

\* The end of group 1 for a match starting at s: the greedy choice.
Group1End(gt, s) ==
    CHOOSE e \in s..Len(gt) :
        /\ MatchesAt(gt, s, e)
        /\ \A e2 \in (e + 1)..Len(gt) : ~MatchesAt(gt, s, e2)

\* The end of group 3 when it starts at b: the longest run of [^\|].
Group3End(gt, b) ==
    CHOOSE f \in b..Len(gt) :
        /\ AllNotBar(gt, b, f)
        /\ (f = Len(gt) \/ ~NotBar(gt[f + 1]))

gt_re_captures(gt) ==
    LET starts == {s \in 1..Len(gt) : \E e \in s..Len(gt) : MatchesAt(gt, s, e)}
    IN  IF starts = {} THEN None
        ELSE LET s == CHOOSE x \in starts : \A y \in starts : x <= y
                 e == Group1End(gt, s)
                 f == Group3End(gt, e + 2)
             IN  Some([g1 |-> SubSeq(gt, s, e),
                       g2 |-> <<gt[e + 1]>>,
                       g3 |-> SubSeq(gt, e + 2, f)])

transform_allele_nonref(allele_to_transform, curr_allele) ==
    IF allele_to_transform # <<"0">> THEN <<"1">> ELSE <<"0">>

transform_allele(allele_to_transform, curr_allele) ==
    IF allele_to_transform = curr_allele THEN <<"1">> ELSE <<"0">>

NoCalls == {<< ".", "/", "." >>, << ".", "|", "." >>, << "." >>}

(***************************************************************************)
(* Sample access (noodles Sample::get): Some(value slot) when the key is   *)
(* one of the record's FORMAT keys, None otherwise.                        *)
(***************************************************************************)
sample_get(keys, sample, key) ==
    IF Contains(keys, key) THEN Some(sample[IndexOf(keys, key)]) ELSE None

\* The outcomes of transform_format_value: Some(v), None (declined), or a panic.
Transformed(v) == [kind |-> "some", val |-> v, msg |-> ""]
Declined == [kind |-> "decline", val |-> None, msg |-> ""]
Panic(m) == [kind |-> "panic", val |-> None, msg |-> m]

\* The call written for the captures of GT_RE; the panic when there are none.
rewrite_captures(gt_captures, curr_allele) ==
    IF ~IsSome(gt_captures) THEN Panic("FORMAT/GT cannot be parsed")
    ELSE Transformed(Some(StringV(
             transform_allele(Unwrap(gt_captures).g1, curr_allele)
             \o Unwrap(gt_captures).g2
             \o transform_allele(Unwrap(gt_captures).g3, curr_allele))))

\* The "GT" arm.
transform_gt(keys, sample, allele_no) ==
    LET curr_allele == ToDecimal(allele_no)
        slot == sample_get(keys, sample, "GT")
    IN  IF ~IsSome(slot) THEN Panic("FORMAT/GT must be present")
        ELSE IF ~IsSome(Unwrap(slot)) THEN Panic("FORMAT/GT must be present and not None")
        ELSE IF Unwrap(Unwrap(slot)).t # "String" THEN Panic("FORMAT/GT must be string")
        ELSE LET gt == Unwrap(Unwrap(slot)).s
             IN  IF gt \in NoCalls THEN Transformed(Some(StringV(gt)))
                 ELSE rewrite_captures(gt_re_captures(gt), curr_allele)

ad_index_before(allele_no) == allele_no - 1

\* Which element of the AD array is read (0-based, as ad_values[allele_no]).
ad_index(allele_no) == allele_no

ad_pair_swapped(dp, ad) == <<Some(ad), Some(dp - ad)>>

\* The emitted AD array.
ad_pair(dp, ad) == <<Some(dp - ad), Some(ad)>>

\* The "AD" arm.
transform_ad(value, keys, sample, allele_no) ==
    LET slot == sample_get(keys, sample, "DP")
    IN  IF ~IsSome(slot) THEN Panic("FORMAT/DP must be present")
        ELSE IF ~IsSome(Unwrap(slot)) THEN Panic("FORMAT/DP must be present and not None")
        ELSE IF Unwrap(Unwrap(slot)).t # "Integer" THEN Panic("FORMAT/DP must be integer")
        ELSE LET dp == Unwrap(Unwrap(slot)).i
             IN  IF value.t = "ArrayInteger"
                 THEN LET i == ad_index(allele_no) + 1
                      IN  IF i > Len(value.a) THEN Panic("index out of bounds")
                          ELSE IF ~IsSome(value.a[i]) THEN Panic("AD should be integer value")
                          ELSE Transformed(Some(ArrayIntegerV(ad_pair(dp, Unwrap(value.a[i])))))
                 ELSE Declined

sq_index_as_ad(allele_no) == allele_no

\* Which element of an SQ array is read (0-based, as sq_values[allele_no - 1]).
sq_index(allele_no) == allele_no - 1

\* The "SQ" arm.
transform_sq(value, allele_no) ==
    IF value.t = "Float" THEN Transformed(Some(FloatV(value.f)))
    ELSE IF value.t = "ArrayFloat"
    THEN LET i == sq_index(allele_no) + 1
         IN  IF i > Len(value.fa) THEN Panic("index out of bounds")
             ELSE IF ~IsSome(value.fa[i]) THEN Panic("SQ should be float value")
             ELSE Transformed(Some(FloatV(Unwrap(value.fa[i]))))
    ELSE Declined

\* value : Option<Value>, the slot of `key` in `sample`.
transform_format_value(value, key, allele_no, keys, sample) ==
    IF IsSome(value)
    THEN CASE key = "GT" -> transform_gt(keys, sample, allele_no)
           [] key = "AD" -> transform_ad(Unwrap(value), keys, sample, allele_no)
           [] key = "SQ" -> transform_sq(Unwrap(value), allele_no)
           [] OTHER -> Declined
    ELSE Transformed(None)

(***************************************************************************)
(* copy_format.                                                            *)
(***************************************************************************)
keys_from_input_known(kfk, keys) ==
    SelectSeq(keys, LAMBDA k : Contains(kfk.known_keys, k))

\* The known input keys under their input names.
mapped_output_keys_unrenamed(kfk, keys) == keys_from_input_known(kfk, keys)

mapped_output_keys(kfk, keys) ==
    [i \in 1..Len(keys_from_input_known(kfk, keys)) |->
        known_to_output(kfk, keys_from_input_known(kfk, keys)[i])]

\* A declined value is copied whether or not its key is an output key.
copy_value_lenient(kfk, keys, sample, key, allele_no) ==
    LET input_value == sample_get(keys, sample, key)
    IN  IF ~IsSome(input_value) THEN Panic("key must be valid")
        ELSE LET r == transform_format_value(Unwrap(input_value), key, allele_no, keys,
                                             sample)
             IN  IF r.kind # "decline" THEN r ELSE Transformed(Unwrap(input_value))

\* A declined value is written as a missing value.
copy_value_dropping(kfk, keys, sample, key, allele_no) ==
    LET input_value == sample_get(keys, sample, key)
    IN  IF ~IsSome(input_value) THEN Panic("key must be valid")
        ELSE LET r == transform_format_value(Unwrap(input_value), key, allele_no, keys,
                                             sample)
             IN  IF r.kind # "decline" THEN r
                 ELSE IF Contains(kfk.output_keys, key) THEN Transformed(None)
                 ELSE Panic("don't know how to handle key")

\* What the closure of copy_format yields for one key of one sample.
\* What is written for input_value when transform_format_value has returned r.
value_or_copy(kfk, key, input_value, r) ==
    IF r.kind # "decline" THEN r
    ELSE IF Contains(kfk.output_keys, key) THEN Transformed(input_value)
    ELSE Panic("don't know how to handle key")

copy_value(kfk, keys, sample, key, allele_no) ==
    IF ~IsSome(sample_get(keys, sample, key)) THEN Panic("key must be valid")
    ELSE value_or_copy(kfk, key, Unwrap(sample_get(keys, sample, key)),
                       transform_format_value(Unwrap(sample_get(keys, sample, key)),
                                              key, allele_no, keys, sample))

\* Keys::try_from: no key twice, and GT, when present, comes first.
keys_valid(ks) ==
    /\ \A i, j \in 1..Len(ks) : ks[i] = ks[j] => i = j
    /\ \A i \in 1..Len(ks) : ks[i] = "GT" => i = 1

\* The two loops: one row per output sample, with one outcome per known input
\* key; a row is not valid when no input sample has the index the table gives.
sample_rows(rec, idx_o2i, allele_no, kfk) ==
    [j \in 1..Len(idx_o2i) |->
        IF idx_o2i[j] + 1 \in 1..Len(rec.samples)
        THEN [valid |-> TRUE,
              cells |-> [k \in 1..Len(keys_from_input_known(kfk, rec.keys)) |->
                            copy_value(kfk, rec.keys, rec.samples[idx_o2i[j] + 1],
                                       keys_from_input_known(kfk, rec.keys)[k],
                                       allele_no)]]
        ELSE [valid |-> FALSE, cells |-> <<>>]]

\* The first panic of the rows in iteration order (samples outermost, keys
\* innermost), else the panic of Keys::try_from, else the keys and the values.
collect_format(rows, keys) ==
    LET bad(j) == ~rows[j].valid
                  \/ \E k \in 1..Len(rows[j].cells) : rows[j].cells[k].kind = "panic"
        badSamples == {j \in 1..Len(rows) : bad(j)}
    IN  IF badSamples # {}
        THEN LET j == CHOOSE x \in badSamples : \A y \in badSamples : x <= y
             IN  IF ~rows[j].valid THEN Panic("input_idx must be valid here")
                 ELSE LET ks == {k \in 1..Len(rows[j].cells) :
                                    rows[j].cells[k].kind = "panic"}
                          k == CHOOSE x \in ks : \A y \in ks : x <= y
                      IN  Panic(rows[j].cells[k].msg)
        ELSE IF ~keys_valid(keys) THEN Panic("invalid keys")
        ELSE [kind |-> "ok", msg |-> "",
              keys |-> keys,
              samples |-> [j \in 1..Len(rows) |->
                              [k \in 1..Len(rows[j].cells) |-> rows[j].cells[k].val]]]

copy_format(rec, idx_o2i, allele_no, kfk) ==
    collect_format(sample_rows(rec, idx_o2i, allele_no, kfk),
                   mapped_output_keys(kfk, rec.keys))

(***************************************************************************)
(* External collaborators of process_variants.  Their code is not part of  *)
(* the repository; they are modelled at their interface, restricted to the *)
(* chromosome names and alleles the modelled inputs carry.                 *)
(***************************************************************************)
CHROM_AUTO == {"1", "22"}
CHROM_XY == {"X", "Y"}
CHROM_MT == {"MT"}
NonCanonicalChroms == {"GL000192.1"}

\* annonars::common::cli::is_canonical
is_canonical(chrom) == chrom \in CHROM_AUTO \cup CHROM_XY \cup CHROM_MT

\* annonars::common::keys::Var::from_vcf_allele(record, 0)
from_vcf_allele(rec) ==
    [chrom |-> rec.chrom, pos |-> rec.pos, reference |-> rec.ref,
     alternative |-> rec.alts[1]]

\* Vec<u8>::from(Var): the lookup key of an allele.
var_key(v) == <<v.chrom, v.pos, v.reference, v.alternative>>

\* The read-only stores: which keys they hold.  A miss is not an error.
store_has(store, key) == key[4] = "A"

\* ConsequencePredictor::predict on success: Option<Vec<ann>>.
predict(v) == IF v.alternative = "A" THEN Some(<<"ann">>) ELSE None

(***************************************************************************)
(* process_variants: the pieces of the loop body.                          *)
(***************************************************************************)
\* The builder of the output record: one alternate allele of the input record.
build_record(rec, alt) ==
    [chrom |-> rec.chrom, pos |-> rec.pos, ref |-> rec.ref, alts |-> <<alt>>]

skip_allele_never(vcf_var) == FALSE

\* "Skip records with a deletion as alternative allele."
skip_allele(vcf_var) == vcf_var.alternative = "*"

frequency_store_mt_as_xy(chrom) ==
    IF chrom \in CHROM_AUTO THEN Some("autosomal")
    ELSE IF chrom \in CHROM_XY \cup CHROM_MT THEN Some("gonosomal")
    ELSE None

\* The frequency store the if / else-if chain selects for a chromosome.
frequency_store(chrom) ==
    IF chrom \in CHROM_AUTO THEN Some("autosomal")
    ELSE IF chrom \in CHROM_XY THEN Some("gonosomal")
    ELSE IF chrom \in CHROM_MT THEN Some("mitochondrial")
    ELSE None

\* ClinVar queried outside the is_canonical test.
store_queries_always_clinvar(vcf_var, fail) ==
    LET key == var_key(vcf_var)
        f == frequency_store(vcf_var.chrom)
        fq == IF is_canonical(vcf_var.chrom) /\ IsSome(f)
              THEN <<[store |-> Unwrap(f), key |-> key]>> ELSE <<>>
        cq == IF fail = "frequency" THEN <<>> ELSE <<[store |-> "clinvar", key |-> key]>>
    IN  fq \o cq

\* ClinVar queried inside the autosomal arm only.
store_queries_clinvar_auto_only(vcf_var, fail) ==
    IF is_canonical(vcf_var.chrom)
    THEN LET key == var_key(vcf_var)
             f == frequency_store(vcf_var.chrom)
             fq == IF IsSome(f) THEN <<[store |-> Unwrap(f), key |-> key]>> ELSE <<>>
             cq == IF fail = "frequency" \/ vcf_var.chrom \notin CHROM_AUTO THEN <<>>
                   ELSE <<[store |-> "clinvar", key |-> key]>>
         IN  fq \o cq
    ELSE <<>>

\* The stores queried for one allele, in order, each with the key it is given.
\* `fail` names the collaborator call that returns Err ("none" when all succeed).
store_queries(vcf_var, fail) ==
    IF is_canonical(vcf_var.chrom)
    THEN LET key == var_key(vcf_var)
             f == frequency_store(vcf_var.chrom)
             fq == IF IsSome(f) THEN <<[store |-> Unwrap(f), key |-> key]>> ELSE <<>>
             cq == IF fail = "frequency" THEN <<>>
                   ELSE <<[store |-> "clinvar", key |-> key]>>
         IN  fq \o cq
    ELSE <<>>

\* The collaborator calls of one loop body that may return Err.
failures(vcf_var) ==
    {"none", "predict", "write"}
    \cup (IF is_canonical(vcf_var.chrom) THEN {"clinvar"} ELSE {})
    \cup (IF is_canonical(vcf_var.chrom) /\ IsSome(frequency_store(vcf_var.chrom))
          THEN {"frequency"} ELSE {})

\* INFO of the output record after annotation: one entry per store hit, and ANN.
annotate(vcf_var, queries) ==
    {queries[i].store : i \in {x \in 1..Len(queries) :
                                  store_has(queries[x].store, queries[x].key)}}
    \cup (IF IsSome(predict(vcf_var)) /\ Len(Unwrap(predict(vcf_var))) > 0
          THEN {"ANN"} ELSE {})

\* A run without --max-var-count stops as one with a limit it has reached.
limit_reached_or_unset(written, limit) == ~IsSome(limit) \/ written >= Unwrap(limit)

\* The limit must be exceeded, not just reached.
limit_reached_strict(written, limit) == IsSome(limit) /\ written > Unwrap(limit)

\* The check after each input record.
limit_reached(written, limit) == IsSome(limit) /\ written >= Unwrap(limit)

next_allele_idx_skipping(idx) == idx + 2

count_record_twice(written) == written + 2

\* total_written += 1
count_record(written) == written + 1

\* The allele index the for loop continues with.
next_allele_idx(idx) == idx + 1

(***************************************************************************)
(* The sample table: output sample index -> input sample index.            *)
(***************************************************************************)
USIZE_MAX == -1   \* stands for usize::MAX, an index no record has

\* Panics when an input sample name is no key of output_sample_to_idx.
sample_table_panics(output_names, input_names) ==
    \E i \in 1..Len(input_names) : ~Contains(output_names, input_names[i])

\* The table of a caller that takes both headers to list the samples alike.
build_idx_same_order(output_names, input_names) ==
    [j \in 1..Len(output_names) |-> j - 1]

\* `res` after the loop over the input names (0-based input indices); a later
\* input sample of the same name overwrites an earlier one.
build_idx_output_to_input(output_names, input_names) ==
    [j \in 1..Len(output_names) |->
        LET hits == {i \in 1..Len(input_names) :
                        /\ input_names[i] = output_names[j]
                        /\ \A j2 \in (j + 1)..Len(output_names) :
                               output_names[j2] # output_names[j]}
        IN  IF hits = {} THEN USIZE_MAX
            ELSE (CHOOSE i \in hits : \A i2 \in hits : i2 <= i) - 1]

(***************************************************************************)
(* process_variants as a state machine.                                    *)
(*   "start"   before the stores are opened and the sample table is built  *)
(*   "read"    at `records.next()`                                         *)
(*   "alleles" inside the for loop over the alternate alleles              *)
(*   "done"    after the loop, Ok(())                                      *)
(*   "failed"  the run ended with an Err or a panic                        *)
(***************************************************************************)
Error(kind, msg) == Some([kind |-> kind, msg |-> msg])

Fail(kind, msg) ==
    /\ pc' = "failed"
    /\ err' = Error(kind, msg)

\* Opening the stores and the transcript database, then the sample table, then
\* KNOWN_FORMAT_KEYS.get_or_init(Default::default).
Startup ==
    /\ pc = "start"
    /\ \E opened \in BOOLEAN :
          IF ~opened
          THEN /\ Fail("error", "open")
               /\ UNCHANGED <<idx_output_to_input, known_format_keys>>
          ELSE IF sample_table_panics(sample_names.output, sample_names.input)
          THEN /\ Fail("panic", "sample not in output header")
               /\ UNCHANGED <<idx_output_to_input, known_format_keys>>
          ELSE /\ idx_output_to_input' =
                      build_idx_output_to_input(sample_names.output, sample_names.input)
               /\ known_format_keys' =
                      IF IsSome(known_format_keys) THEN known_format_keys
                      ELSE Some(KnownFormatKeys_default)
               /\ pc' = "read"
               /\ UNCHANGED err
    /\ UNCHANGED <<file_record, in_memory>>
    /\ UNCHANGED <<max_var_count, sample_names, source, rec_no, allele_idx,
                   total_written, output, attempts, lookups, stop_reason>>

\* records.next() yields Some(Ok(record)).
ReadRecord ==
    /\ pc = "read"
    /\ rec_no < Len(source)
    /\ rec_no' = rec_no + 1
    /\ allele_idx' = 0
    /\ pc' = "alleles"
    /\ UNCHANGED <<file_record, in_memory>>
    /\ UNCHANGED <<max_var_count, sample_names, source, idx_output_to_input,
                   known_format_keys,
                   total_written, output, attempts, lookups, err, stop_reason>>

\* records.next() yields Some(Err(_)): `input_record?` returns the error.
ReadError ==
    /\ pc = "read"
    /\ rec_no < Len(source)
    /\ Fail("error", "read")
    /\ UNCHANGED <<file_record, in_memory>>
    /\ UNCHANGED <<max_var_count, sample_names, source, idx_output_to_input,
                   known_format_keys, rec_no,
                   allele_idx, total_written, output, attempts, lookups, stop_reason>>

\* records.next() yields None: "all done".
EndOfInput ==
    /\ pc = "read"
    /\ rec_no = Len(source)
    /\ pc' = "done"
    /\ stop_reason' = "exhausted"
    /\ UNCHANGED <<file_record, in_memory>>
    /\ UNCHANGED <<max_var_count, sample_names, source, idx_output_to_input,
                   known_format_keys, rec_no,
                   allele_idx, total_written, output, attempts, lookups, err>>

\* The iteration with the "*" test made before the genotypes are copied.
ProcessAllele_skipping_first ==
    /\ pc = "alleles"
    /\ allele_idx < Len(source[rec_no].alts)
    /\ LET input_record == source[rec_no]
           allele_no == allele_idx + 1
           alt_allele == input_record.alts[allele_no]
           builder == build_record(input_record, alt_allele)
           vcf_var == from_vcf_allele(builder)
       IN  \E cf \in {copy_format(input_record, idx_output_to_input, allele_no,
                                  Unwrap(known_format_keys))} :
           /\ attempts' = Append(attempts, <<rec_no, allele_no>>)
           /\ IF skip_allele(vcf_var)
              THEN /\ allele_idx' = next_allele_idx(allele_idx)
                   /\ UNCHANGED <<pc, err, total_written, output, lookups>>
              ELSE IF cf.kind = "panic"
              THEN /\ Fail("panic", cf.msg)
                   /\ UNCHANGED <<allele_idx, total_written, output, lookups>>
              ELSE \E fail \in failures(vcf_var) :
                      LET queries == store_queries(vcf_var, fail)
                      IN  /\ lookups' = lookups \o
                                 [i \in 1..Len(queries) |->
                                     [record_no |-> rec_no, allele_no |-> allele_no,
                                      store |-> queries[i].store, key |-> queries[i].key]]
                          /\ IF fail # "none"
                             THEN /\ Fail("error", fail)
                                  /\ UNCHANGED <<allele_idx, total_written, output>>
                             ELSE /\ output' = Append(output,
                                         [chrom |-> builder.chrom, pos |-> builder.pos,
                                          ref |-> builder.ref, alts |-> builder.alts,
                                          keys |-> cf.keys, samples |-> cf.samples,
                                          info |-> annotate(vcf_var, queries),
                                          record_no |-> rec_no, allele_no |-> allele_no])
                                  /\ total_written' = count_record(total_written)
                                  /\ allele_idx' = next_allele_idx(allele_idx)
                                  /\ UNCHANGED <<pc, err>>
    /\ UNCHANGED <<file_record, in_memory>>
    /\ UNCHANGED <<max_var_count, sample_names, source, idx_output_to_input,
                   known_format_keys, rec_no,
                   stop_reason>>

\* One iteration of the for loop over the alternate alleles.
ProcessAllele ==
    /\ pc = "alleles"
    /\ allele_idx < Len(source[rec_no].alts)
    /\ LET input_record == source[rec_no]
           allele_no == allele_idx + 1
           alt_allele == input_record.alts[allele_no]
           builder == build_record(input_record, alt_allele)
           vcf_var == from_vcf_allele(builder)
       IN  \E cf \in {copy_format(input_record, idx_output_to_input, allele_no,
                                  Unwrap(known_format_keys))} :
           /\ attempts' = Append(attempts, <<rec_no, allele_no>>)
           /\ IF cf.kind = "panic"
              THEN /\ Fail("panic", cf.msg)
                   /\ UNCHANGED <<allele_idx, total_written, output, lookups>>
              ELSE IF skip_allele(vcf_var)
              THEN /\ allele_idx' = next_allele_idx(allele_idx)
                   /\ UNCHANGED <<pc, err, total_written, output, lookups>>
              ELSE \E fail \in failures(vcf_var) :
                      LET queries == store_queries(vcf_var, fail)
                      IN  /\ lookups' = lookups \o
                                 [i \in 1..Len(queries) |->
                                     [record_no |-> rec_no, allele_no |-> allele_no,
                                      store |-> queries[i].store, key |-> queries[i].key]]
                          /\ IF fail # "none"
                             THEN /\ Fail("error", fail)
                                  /\ UNCHANGED <<allele_idx, total_written, output>>
                             ELSE /\ output' = Append(output,
                                         [chrom |-> builder.chrom, pos |-> builder.pos,
                                          ref |-> builder.ref, alts |-> builder.alts,
                                          keys |-> cf.keys, samples |-> cf.samples,
                                          info |-> annotate(vcf_var, queries),
                                          record_no |-> rec_no, allele_no |-> allele_no])
                                  /\ total_written' = count_record(total_written)
                                  /\ allele_idx' = next_allele_idx(allele_idx)
                                  /\ UNCHANGED <<pc, err>>
    /\ UNCHANGED <<file_record, in_memory>>
    /\ UNCHANGED <<max_var_count, sample_names, source, idx_output_to_input,
                   known_format_keys, rec_no,
                   stop_reason>>

\* After the for loop: the --max-var-count check, then back to records.next().
CheckLimit ==
    /\ pc = "alleles"
    /\ allele_idx >= Len(source[rec_no].alts)
    /\ IF limit_reached(total_written, max_var_count)
       THEN /\ pc' = "done"
            /\ stop_reason' = "limit"
       ELSE /\ pc' = "read"
            /\ UNCHANGED stop_reason
    /\ UNCHANGED <<file_record, in_memory>>
    /\ UNCHANGED <<max_var_count, sample_names, source, idx_output_to_input,
                   known_format_keys, rec_no,
                   allele_idx, total_written, output, attempts, lookups, err>>

Next ==
    \/ Startup
    \/ ReadRecord
    \/ ReadError
    \/ EndOfInput
    \/ ProcessAllele
    \/ CheckLimit

(***************************************************************************)
(* Inputs.                                                                 *)
(***************************************************************************)
\* All sequences over S of length lo..hi.
SeqsOf(S, lo, hi) == UNION {[1..n -> S] : n \in lo..hi}

StrSlot(s) == Some(StringV(s))
IntSlot(i) == Some(IntegerV(i))

MkRecord(chrom, pos, alts, keys, samples) ==
    [chrom |-> chrom, pos |-> pos, ref |-> "G", alts |-> alts,
     keys |-> keys, samples |-> samples]

\* The state at entry of process_variants, for a given input.
InitWith(limit, names, src) ==
    /\ max_var_count = limit
    /\ sample_names = names
    /\ source = src
    /\ idx_output_to_input = <<>>
    /\ known_format_keys = None
    /\ rec_no = 0
    /\ pc = "start"
    /\ allele_idx = 0
    /\ total_written = 0
    /\ output = <<>>
    /\ attempts = <<>>
    /\ lookups = <<>>
    /\ err = None
    /\ stop_reason = "running"
    /\ file_record = None
    /\ in_memory = None

OneSample == [output |-> <<"A">>, input |-> <<"A">>]

Limits == {None} \cup {Some(n) : n \in 0..MaxLimit}

\* Spec: runs over several records, with and without a limit.
PlainSample == <<StrSlot(<<"0", "/", "1">>), IntSlot(30)>>

\* The i-th record of a run lies at position 100 + i of chromosome 1.
LoopSource(altss) ==
    [i \in 1..Len(altss) |->
        MkRecord("1", 100 + i, altss[i], <<"GT", "DP">>, <<PlainSample>>)]

Init ==
    \E limit \in Limits,
       altss \in SeqsOf(SeqsOf({"A", "*"}, 0, MaxAlts), 0, MaxRecords) :
        InitWith(limit, OneSample, LoopSource(altss))

Spec == Init /\ [][Next]_vars

(***************************************************************************)
(* Properties of the record loop, checked under Spec.                      *)
(***************************************************************************)
\* The for loop over the alleles of record r has run to its end.
Completed(r) == r < rec_no \/ (r = rec_no /\ allele_idx >= Len(source[r].alts))

\* The allele numbers attempted for record r, in the order of the attempts.
AttemptsOf(r) ==
    LET sel == SelectSeq(attempts, LAMBDA a : a[1] = r)
    IN  [i \in 1..Len(sel) |-> sel[i][2]]

\* The allele numbers of the written records that stem from record r.
WrittenOf(r) == {output[i].allele_no : i \in {x \in 1..Len(output) : output[x].record_no = r}}

\* 1, 2, ..., n
UpTo(n) == [i \in 1..n |-> i]

\* C1: a record with k alternate alleles gets the attempts 1..k, in this order;
\* once its loop has run to the end, the records written for it are exactly
\* those of its alleles other than "*", one record each; and every written
\* record has one alternate allele, the one of its allele number, with the
\* chromosome, position and reference bases of its input record.
C1_Decomposition ==
    /\ \A r \in 1..rec_no :
          LET k == Len(source[r].alts)
          IN  /\ \E m \in 0..k : AttemptsOf(r) = UpTo(m)
              /\ Completed(r) =>
                    /\ AttemptsOf(r) = UpTo(k)
                    /\ WrittenOf(r) = {i \in 1..k : source[r].alts[i] # "*"}
                    /\ Cardinality({x \in 1..Len(output) : output[x].record_no = r})
                          = Cardinality(WrittenOf(r))
    /\ \A r \in (rec_no + 1)..Len(source) : AttemptsOf(r) = <<>>
    /\ \A x \in 1..Len(output) :
          LET o == output[x]
              r == source[o.record_no]
          IN  /\ Len(o.alts) = 1
              /\ o.alts[1] = r.alts[o.allele_no]
              /\ o.alts[1] # "*"
              /\ o.chrom = r.chrom /\ o.pos = r.pos /\ o.ref = r.ref

\* A finished run over a record with the alleles "*" and "A": one record written.
C1_Witness ==
    /\ pc = "done"
    /\ \E r \in 1..rec_no :
          /\ source[r].alts = <<"*", "A">>
          /\ AttemptsOf(r) = <<1, 2>>
          /\ WrittenOf(r) = {2}

\* The number of records the whole input yields without a limit.
RECURSIVE CountEmittable(_)
CountEmittable(src) ==
    IF src = <<>> THEN 0
    ELSE Cardinality({i \in 1..Len(Head(src).alts) : Head(src).alts[i] # "*"})
         + CountEmittable(Tail(src))

\* C2: with a limit N, a run that ends has written exactly N records whenever
\* the input yields at least N.
C2_ExactlyLimit ==
    (pc = "done" /\ IsSome(max_var_count)
        /\ CountEmittable(source) >= Unwrap(max_var_count))
    => Len(output) = Unwrap(max_var_count)

\* The <<record no, allele_no>> of the alleles other than "*" among the first m
\* alleles of record r, in increasing allele order.
EmittedPairs(r, m) ==
    LET idx == SelectSeq(UpTo(m), LAMBDA i : i <= Len(source[r].alts)
                                             /\ source[r].alts[i] # "*")
    IN  [i \in 1..Len(idx) |-> <<r, idx[i]>>]

RECURSIVE EmittedUpTo(_)
EmittedUpTo(r) ==
    IF r = 0 THEN <<>>
    ELSE EmittedUpTo(r - 1) \o EmittedPairs(r, Len(source[r].alts))

\* C3: the written records are, in this order, the alleles other than "*" of
\* the records read before the current one, record by record and by increasing
\* allele number, followed by those of the current record iterated so far: the
\* output is a function of the input, in input order, and every allele of a
\* record is attempted before the next record is read.
C3_InputOrder ==
    /\ [x \in 1..Len(output) |-> <<output[x].record_no, output[x].allele_no>>]
          = IF rec_no = 0 THEN <<>>
            ELSE EmittedUpTo(rec_no - 1) \o EmittedPairs(rec_no, allele_idx)
    /\ \A x, y \in 1..Len(output) :
          x < y => \/ output[x].record_no < output[y].record_no
                   \/ /\ output[x].record_no = output[y].record_no
                      /\ output[x].allele_no < output[y].allele_no
    /\ \A r \in 1..(rec_no - 1) : AttemptsOf(r) = UpTo(Len(source[r].alts))

\* Two records of two alleles each, all four written in input order.
C3_Witness ==
    /\ pc = "done"
    /\ Len(output) = 4
    /\ [x \in 1..4 |-> <<output[x].record_no, output[x].allele_no>>]
          = <<<<1, 1>>, <<1, 2>>, <<2, 1>>, <<2, 2>>>>

(***************************************************************************)
(* SpecFormat: runs over one record each, drawn from records that vary the *)
(* FORMAT values of the sample: every GT string up to MaxGtLen characters, *)
(* DP with every AD array, and every SQ scalar or array, up to MaxArrayLen *)
(* elements.  The record has 1..MaxAlts+1 alternate alleles.               *)
(***************************************************************************)
GtAlphabet == {"0", "1", "2", "3", ".", "/", "|"}
Depths == {5, 30}
AdElements == {None, Some(8), Some(10), Some(12)}
SqElements == {None, Some("q1"), Some("q2"), Some("q3")}

\* A call of three alleles, as VCF writes it for a triploid sample.
TriploidCall == <<"0", "/", "1", "/", "2">>

GtSamples ==
    {<<StrSlot(g)>> : g \in SeqsOf(GtAlphabet, 1, MaxGtLen) \cup {TriploidCall}}

AdSamples ==
    {<<StrSlot(<<"1", "/", "2">>), IntSlot(d), Some(ArrayIntegerV(a))>> :
        d \in Depths, a \in SeqsOf(AdElements, 1, MaxArrayLen)}

SqSamples ==
    {<<StrSlot(<<"0", "/", "1">>), Some(FloatV(q))>> : q \in {"q1", "q2", "q3"}}
    \cup {<<StrSlot(<<"0", "/", "1">>), Some(ArrayFloatV(a))>> :
             a \in SeqsOf(SqElements, 1, MaxArrayLen)}

FormatAlts == {[i \in 1..n |-> "A"] : n \in 1..(MaxAlts + 1)}

FormatRecords ==
    {MkRecord("GL000192.1", 100, alts, <<"GT">>, <<v>>) :
        alts \in FormatAlts, v \in GtSamples}
    \cup {MkRecord("GL000192.1", 100, alts, <<"GT", "DP", "AD">>, <<v>>) :
             alts \in FormatAlts, v \in AdSamples}
    \cup {MkRecord("GL000192.1", 100, alts, <<"GT", "SQ">>, <<v>>) :
             alts \in FormatAlts, v \in SqSamples}

InitFormat == \E rec \in FormatRecords : InitWith(None, OneSample, <<rec>>)

SpecFormat == InitFormat /\ [][Next]_vars

\* The value of FORMAT key `key` of the only sample of a record (input or output).
ValueOf(rec, key) == Unwrap(rec.samples[1][IndexOf(rec.keys, key)])

HasValue(rec, key) ==
    Contains(rec.keys, key) /\ IsSome(rec.samples[1][IndexOf(rec.keys, key)])

\* gt reads allele<sep>allele: one separator, with a non-empty text without
\* separators on either side.
SepPositions(gt) == {p \in 1..Len(gt) : IsSep(gt[p])}

IsTwoAlleleCall(gt) ==
    /\ Cardinality(SepPositions(gt)) = 1
    /\ \A p \in SepPositions(gt) : 1 < p /\ p < Len(gt)

Side(text, n) == IF text = ToDecimal(n) THEN <<"1">> ELSE <<"0">>

Rewritten(gt, n) ==
    LET p == CHOOSE q \in SepPositions(gt) : TRUE
    IN  Side(SubSeq(gt, 1, p - 1), n) \o <<gt[p]>> \o Side(SubSeq(gt, p + 1, Len(gt)), n)

\* C4: in every written record the GT of a no-call is the input GT; the GT of any
\* other input allele<sep>allele has "1" on a side iff the text of that side is
\* the decimal allele number, "0" otherwise, with the separator kept; and no such
\* input makes the genotype parse fail.
C4_GenotypeCall ==
    /\ \A x \in 1..Len(output) :
          LET o == output[x]
              gt == ValueOf(source[o.record_no], "GT").s
          IN  /\ gt \in NoCalls => ValueOf(o, "GT") = StringV(gt)
              /\ (gt \notin NoCalls /\ IsTwoAlleleCall(gt))
                    => ValueOf(o, "GT") = StringV(Rewritten(gt, o.allele_no))
    /\ (pc = "failed" /\ Unwrap(err).msg = "FORMAT/GT cannot be parsed")
          => LET gt == ValueOf(source[rec_no], "GT").s
             IN  gt \notin NoCalls /\ ~IsTwoAlleleCall(gt)

\* "2/3" written as "1/0" for allele 2 and as "0/1" for allele 3.
C4_Witness ==
    /\ Len(output) = 3
    /\ ValueOf(source[1], "GT") = StringV(<<"2", "/", "3">>)
    /\ ValueOf(output[2], "GT") = StringV(<<"1", "/", "0">>)
    /\ ValueOf(output[3], "GT") = StringV(<<"0", "/", "1">>)

\* The input AD array holds an integer at 0-based position n.
AdReadable(rec, n) ==
    /\ HasValue(rec, "AD") /\ ValueOf(rec, "AD").t = "ArrayInteger"
    /\ HasValue(rec, "DP") /\ ValueOf(rec, "DP").t = "Integer"
    /\ n + 1 <= Len(ValueOf(rec, "AD").a)
    /\ IsSome(ValueOf(rec, "AD").a[n + 1])

\* C5: with total depth D and the integer A at position allele_no (counted from
\* 0) of the input AD array, the written AD is the array [D - A, A]; and such an
\* input makes no attempt fail in copy_format.
C5_AlleleDepth ==
    /\ \A x \in 1..Len(output) :
          LET o == output[x]
              r == source[o.record_no]
          IN  AdReadable(r, o.allele_no) =>
                 LET D == ValueOf(r, "DP").i
                     A == Unwrap(ValueOf(r, "AD").a[o.allele_no + 1])
                 IN  ValueOf(o, "AD") = ArrayIntegerV(<<Some(D - A), Some(A)>>)
    /\ (pc = "failed" /\ Unwrap(err).kind = "panic" /\ Contains(source[rec_no].keys, "AD"))
          => ~AdReadable(source[rec_no], allele_idx + 1)

\* DP 30 and AD [8, 12, 10]: allele 2 is written with AD [20, 10].
C5_Witness ==
    /\ Len(output) = 2
    /\ HasValue(source[1], "AD")
    /\ ValueOf(source[1], "DP") = IntegerV(30)
    /\ ValueOf(source[1], "AD") = ArrayIntegerV(<<Some(8), Some(12), Some(10)>>)
    /\ ValueOf(output[2], "AD") = ArrayIntegerV(<<Some(20), Some(10)>>)

\* The scenario of C6: one record, two alternate alleles, one sample with
\* GT "1/2", DP 30 and AD [10, 12, 8].
IsScenario ==
    /\ Len(source) = 1
    /\ Len(source[1].alts) = 2
    /\ source[1].keys = <<"GT", "DP", "AD">>
    /\ source[1].samples =
          <<<<StrSlot(<<"1", "/", "2">>), IntSlot(30),
              Some(ArrayIntegerV(<<Some(10), Some(12), Some(8)>>))>>>>

ScenarioOutput(x, gt, ad) ==
    /\ output[x].allele_no = x
    /\ ValueOf(output[x], "GT") = StringV(gt)
    /\ ValueOf(output[x], "AD") = ArrayIntegerV(ad)

\* C6 as stated: the scenario ends with two records, allele 1 with GT "1/0" and
\* AD [20, 10], allele 2 with GT "0/1" and AD [18, 12].
C6_AsStated ==
    (IsScenario /\ pc = "done") =>
        /\ Len(output) = 2
        /\ ScenarioOutput(1, <<"1", "/", "0">>, <<Some(20), Some(10)>>)
        /\ ScenarioOutput(2, <<"0", "/", "1">>, <<Some(18), Some(12)>>)

\* C6, amended: the scenario ends with two records, allele 1 with GT "1/0" and
\* AD [18, 12], allele 2 with GT "0/1" and AD [22, 8].
C6_Scenario ==
    (IsScenario /\ pc = "done") =>
        /\ Len(output) = 2
        /\ ScenarioOutput(1, <<"1", "/", "0">>, <<Some(18), Some(12)>>)
        /\ ScenarioOutput(2, <<"0", "/", "1">>, <<Some(22), Some(8)>>)

C6_Witness == IsScenario /\ pc = "done" /\ Len(output) = 2

AllChroms == CHROM_AUTO \cup CHROM_XY \cup CHROM_MT \cup NonCanonicalChroms

RouteRecords ==
    {MkRecord(c, 100, alts, <<"GT", "DP">>, <<PlainSample>>) :
        c \in AllChroms, alts \in SeqsOf({"A", "C", "*"}, 1, MaxAlts)}

InitRoute == \E rec \in RouteRecords : InitWith(None, OneSample, <<rec>>)

SpecRoute == InitRoute /\ [][Next]_vars

FrequencyStores == {"autosomal", "gonosomal", "mitochondrial"}

\* The store queries issued for allele n of record r, in order.
LookupsOf(r, n) == SelectSeq(lookups, LAMBDA l : l.record_no = r /\ l.allele_no = n)

\* The stores among S queried for allele n of record r, one entry per query.
QueriesTo(r, n, S) == SelectSeq(LookupsOf(r, n), LAMBDA l : l.store \in S)

\* C8: for every allele, written or not, at most one frequency store is queried,
\* at most once: the autosomal store for an autosomal chromosome only, the
\* gonosomal store for a gonosomal one only, the mitochondrial store for a
\* mitochondrial one only.
C8_ExclusiveRouting ==
    \A r \in 1..rec_no : \A n \in 1..Len(source[r].alts) :
        LET c == source[r].chrom
            fq == QueriesTo(r, n, FrequencyStores)
        IN  /\ Len(fq) <= 1
            /\ \A i \in 1..Len(fq) :
                  /\ fq[i].store = "autosomal" <=> c \in CHROM_AUTO
                  /\ fq[i].store = "gonosomal" <=> c \in CHROM_XY
                  /\ fq[i].store = "mitochondrial" <=> c \in CHROM_MT
            /\ (\E x \in 1..Len(output) :
                    output[x].record_no = r /\ output[x].allele_no = n /\ is_canonical(c))
                  => Len(fq) = 1

\* A written allele on MT whose only frequency query went to the mitochondrial store.
C8_Witness ==
    \E x \in 1..Len(output) :
        /\ output[x].chrom = "MT"
        /\ Len(QueriesTo(output[x].record_no, output[x].allele_no, FrequencyStores)) = 1
        /\ QueriesTo(output[x].record_no, output[x].allele_no,
                     {"mitochondrial"}) # <<>>

\* C9: for a record on a non-canonical chromosome no store is queried; the run
\* fails there neither with a store error nor with a panic; every allele other
\* than "*" of the record, once the loop over its alleles has run to the end,
\* is written, without store annotation, and counted in total_written.
C9_NonCanonical ==
    /\ total_written = Len(output)
    /\ \A r \in 1..rec_no :
          ~is_canonical(source[r].chrom) =>
             /\ \A n \in 1..Len(source[r].alts) : LookupsOf(r, n) = <<>>
             /\ (pc = "failed" /\ r = rec_no /\ allele_idx < Len(source[r].alts))
                   => Unwrap(err).kind = "error" /\ Unwrap(err).msg \in {"predict", "write"}
             /\ Completed(r) =>
                   WrittenOf(r) = {i \in 1..Len(source[r].alts) : source[r].alts[i] # "*"}
             /\ \A x \in 1..Len(output) :
                   output[x].record_no = r => output[x].info \subseteq {"ANN"}

\* A finished run that wrote an allele of the non-canonical contig.
C9_Witness ==
    /\ pc = "done"
    /\ total_written = 1
    /\ output[1].chrom = "GL000192.1"
    /\ lookups = <<>>

\* C10: for every written allele on a canonical chromosome the ClinVar store is
\* queried exactly once; for every allele all its queries carry one key, the key
\* of that allele, and there are at most two of them.
C10_ClinvarOnce ==
    /\ \A x \in 1..Len(output) :
          is_canonical(output[x].chrom) =>
             Len(QueriesTo(output[x].record_no, output[x].allele_no, {"clinvar"})) = 1
    /\ \A r \in 1..rec_no : \A n \in 1..Len(source[r].alts) :
          LET q == LookupsOf(r, n)
          IN  /\ Len(q) \in {0, 1, 2}
              /\ \A i \in 1..Len(q) :
                    q[i].key = <<source[r].chrom, source[r].pos, source[r].ref,
                                 source[r].alts[n]>>

\* A written allele on X: one gonosomal query and one ClinVar query.
C10_Witness ==
    \E x \in 1..Len(output) :
        /\ output[x].chrom = "X"
        /\ Len(LookupsOf(output[x].record_no, output[x].allele_no)) = 2
        /\ Len(QueriesTo(output[x].record_no, output[x].allele_no, {"clinvar"})) = 1

(***************************************************************************)
(* SpecSamples: headers that list the samples in different orders, or      *)
(* list different samples.  Sample i of the input carries DP = 10 + i.     *)
(***************************************************************************)
SampleNames == {"A", "B", "C"}

\* Headers hold each sample name once.
NameLists ==
    {l \in SeqsOf(SampleNames, 0, MaxSamples) :
        \A i, j \in 1..Len(l) : l[i] = l[j] => i = j}

NumberedSample(i) == <<StrSlot(<<"0", "/", "1">>), IntSlot(10 + i)>>

SamplesRecord(alts, n) ==
    MkRecord("1", 101, alts, <<"GT", "DP">>, [i \in 1..n |-> NumberedSample(i)])

InitSamples ==
    \E outs \in NameLists, ins \in NameLists, alts \in SeqsOf({"A"}, 0, MaxAlts) :
        InitWith(None, [output |-> outs, input |-> ins],
                 IF alts = <<>> THEN <<>> ELSE <<SamplesRecord(alts, Len(ins))>>)

SpecSamples == InitSamples /\ [][Next]_vars

\* The table has been built.
TableBuilt == IsSome(known_format_keys)

\* Both headers list the same samples.
SameSamples ==
    /\ Len(sample_names.output) = Len(sample_names.input)
    /\ \A j \in 1..Len(sample_names.output) :
           Contains(sample_names.input, sample_names.output[j])

\* C11: when both headers list the same samples, the table holds at each output
\* position the (0-based) input position of the sample named there, and in every
\* written record the values of output sample j are those of the input sample
\* of that name (seen on DP, which numbers the input samples).
C11_Reindexing ==
    /\ (TableBuilt /\ SameSamples) =>
          /\ Len(idx_output_to_input) = Len(sample_names.output)
          /\ \A j \in 1..Len(sample_names.output) :
                /\ idx_output_to_input[j] \in 0..(Len(sample_names.input) - 1)
                /\ sample_names.input[idx_output_to_input[j] + 1] = sample_names.output[j]
    /\ \A x \in 1..Len(output) :
          /\ Len(output[x].samples) = Len(sample_names.output)
          /\ \A j \in 1..Len(sample_names.output) :
                /\ output[x].samples[j][2] =
                       IntSlot(10 + IndexOf(sample_names.input, sample_names.output[j]))
                /\ idx_output_to_input[j] + 1 \in 1..Len(source[output[x].record_no].samples)
                /\ output[x].samples[j][2] =
                       source[output[x].record_no].samples[idx_output_to_input[j] + 1][2]

C11_Witness ==
    /\ sample_names = [output |-> <<"B", "A">>, input |-> <<"A", "B">>]
    /\ idx_output_to_input = <<1, 0>>
    /\ Len(output) > 0
    /\ output[1].samples = <<<<StrSlot(<<"0", "/", "1">>), IntSlot(12)>>,
                             <<StrSlot(<<"0", "/", "1">>), IntSlot(11)>>>>

\* Some output sample name does not appear in the input header.
OutputSampleMissing ==
    \E j \in 1..Len(sample_names.output) :
        ~Contains(sample_names.input, sample_names.output[j])

\* C12: when an output sample name does not appear in the input header the run
\* fails while the table is built: no record is read, no allele is attempted,
\* and no table with an unmapped entry is there after the construction.
C12_FailsAtConstruction ==
    OutputSampleMissing =>
        /\ pc \in {"start", "failed"}
        /\ rec_no = 0
        /\ attempts = <<>>
        /\ \A j \in 1..Len(idx_output_to_input) : idx_output_to_input[j] # USIZE_MAX

(***************************************************************************)
(* SpecKeys: records whose samples carry any selection of the FORMAT keys  *)
(* GT, XX, GQ, DP, AD, PS, SQ (XX is no known key), with values of the      *)
(* expected and of other types.  A choice is <<>> for a key the record      *)
(* lacks and <<slot>> for a key it has.                                    *)
(***************************************************************************)
XxChoices == {<<>>, <<IntSlot(9)>>}
GqChoices == {<<>>, <<None>>, <<IntSlot(50)>>}
DpChoices == {<<>>, <<None>>, <<IntSlot(30)>>, <<StrSlot(<<"3", "0">>)>>}
AdChoices ==
    {<<>>, <<None>>, <<IntSlot(7)>>,
     <<Some(ArrayIntegerV(<<Some(10), Some(12), Some(8)>>))>>}
PsChoices == {<<>>, <<IntSlot(1)>>}
SqChoices ==
    {<<>>, <<IntSlot(3)>>, <<Some(FloatV("q1"))>>,
     <<Some(ArrayFloatV(<<Some("q1"), Some("q2"), Some("q3")>>))>>}

KeyIf(key, choice) == IF choice = <<>> THEN <<>> ELSE <<key>>

KeysRecord(alts, xx, gq, dp, ad, ps, sq) ==
    LET row == <<StrSlot(<<"0", "/", "1">>)>> \o xx \o gq \o dp \o ad \o ps \o sq
    IN  MkRecord("GL000192.1", 100, alts,
                 <<"GT">> \o KeyIf("XX", xx) \o KeyIf("GQ", gq) \o KeyIf("DP", dp)
                     \o KeyIf("AD", ad) \o KeyIf("PS", ps) \o KeyIf("SQ", sq),
                 <<row, row>>)

\* Two samples, listed in different orders by the two headers.
TwoSamples == [output |-> <<"B", "A">>, input |-> <<"A", "B">>]

InitKeys ==
    \E alts \in FormatAlts, xx \in XxChoices, gq \in GqChoices, dp \in DpChoices,
       ad \in AdChoices, ps \in PsChoices, sq \in SqChoices :
        InitWith(None, TwoSamples, <<KeysRecord(alts, xx, gq, dp, ad, ps, sq)>>)

SpecKeys == InitKeys /\ [][Next]_vars

\* The input record a written record was made from.
InputOf(o) == source[o.record_no]

\* The keys of an input record that the table lists as known, in input order.
KnownKeysOf(rec, t) == SelectSeq(rec.keys, LAMBDA k : Contains(t.known_keys, k))

\* Every key of the rename map is a known key and every value an output key.
TableWellFormed(t) ==
    \A k \in DOMAIN t.known_to_output_map :
        /\ Contains(t.known_keys, k)
        /\ Contains(t.output_keys, t.known_to_output_map[k])

\* The keys of every written record are those of the known input keys, each
\* replaced by its entry in the rename map if it has one and kept otherwise.
KeysResolved(t) ==
    \A x \in 1..Len(output) :
        LET kin == KnownKeysOf(InputOf(output[x]), t)
        IN  /\ Len(output[x].keys) = Len(kin)
            /\ \A i \in 1..Len(kin) :
                  output[x].keys[i] =
                      IF kin[i] \in DOMAIN t.known_to_output_map
                      THEN t.known_to_output_map[kin[i]] ELSE kin[i]

\* C13: the field table, once constructed, maps a key of the rename map to its
\* entry and leaves every other key as it is; every key of the rename map is a
\* known key and every value an output key; and no step changes the table
\* after its construction.
C13_FieldTable ==
    /\ [](IsSome(known_format_keys) =>
             /\ TableWellFormed(Unwrap(known_format_keys))
             /\ KeysResolved(Unwrap(known_format_keys)))
    /\ [][IsSome(known_format_keys) => known_format_keys' = known_format_keys]_vars

C13_Witness ==
    /\ IsSome(known_format_keys)
    /\ DOMAIN Unwrap(known_format_keys).known_to_output_map = {"SQ"}
    /\ \E x \in 1..Len(output) :
          /\ InputOf(output[x]).keys = <<"GT", "XX", "DP", "SQ">>
          /\ output[x].keys = <<"GT", "DP", "GQ">>

SetOf(seq) == {seq[i] : i \in 1..Len(seq)}

\* C14: in every written record all samples carry one value for each key of the
\* record's one key list, the keys are output keys, no key occurs twice, and
\* the set of keys is the image, under known_to_output, of the known keys that
\* the input record has.
C14_UniformKeys ==
    \A x \in 1..Len(output) :
        LET o == output[x]
            r == InputOf(o)
        IN  /\ Len(o.samples) = Len(sample_names.output)
            /\ \A j \in 1..Len(o.samples) : Len(o.samples[j]) = Len(o.keys)
            /\ \A i, j \in 1..Len(o.keys) : o.keys[i] = o.keys[j] => i = j
            /\ SetOf(o.keys) \subseteq SetOf(output_keys)
            /\ SetOf(o.keys) =
                  {known_to_output(KnownFormatKeys_default, k) :
                      k \in SetOf(r.keys) \cap SetOf(known_keys)}

C14_Witness ==
    \E x \in 1..Len(output) :
        /\ InputOf(output[x]).keys = <<"GT", "XX", "DP", "AD", "PS", "SQ">>
        /\ output[x].keys = <<"GT", "DP", "AD", "PS", "GQ">>
        /\ Len(output[x].samples) = 2
        /\ Len(output[x].samples[1]) = 5
        /\ Len(output[x].samples[2]) = 5

\* The record has a GT that is neither a no-call nor allele<sep>allele, or an AD
\* value without an integer DP beside it.
FatalFormat(rec) ==
    \/ /\ HasValue(rec, "GT")
       /\ ValueOf(rec, "GT").s \notin NoCalls
       /\ ~IsTwoAlleleCall(ValueOf(rec, "GT").s)
    \/ /\ HasValue(rec, "AD")
       /\ ~(HasValue(rec, "DP") /\ ValueOf(rec, "DP").t = "Integer")

\* C15: once an allele of a record with such a GT or AD has been attempted, the
\* run has failed at that attempt: it is the last attempt, and every written
\* record stems from an earlier allele.
C15_FatalFormat ==
    \A a \in 1..Len(attempts) :
        FatalFormat(source[attempts[a][1]]) =>
            /\ pc = "failed"
            /\ a = Len(attempts)
            /\ \A x \in 1..Len(output) :
                  \/ output[x].record_no < attempts[a][1]
                  \/ /\ output[x].record_no = attempts[a][1]
                     /\ output[x].allele_no < attempts[a][2]

\* The FORMAT keys of an input record that are no known keys.
UnknownKeysOf(rec) == SetOf(rec.keys) \ SetOf(known_keys)

\* The record has an SQ value that is neither a float nor an array of floats.
SqOfOtherType(rec) ==
    HasValue(rec, "SQ") /\ ValueOf(rec, "SQ").t \notin {"Float", "ArrayFloat"}

LogicError == Error("panic", "don't know how to handle key")

\* C16 as stated: once an allele of a record with an unknown FORMAT key has been
\* attempted, the run has failed with the logic error.
C16_AsStated ==
    \A a \in 1..Len(attempts) :
        UnknownKeysOf(source[attempts[a][1]]) # {} =>
            pc = "failed" /\ err = LogicError

\* C16 as the code has it: an unknown key is left out of every written record
\* and is no cause of a failure (every panic has its cause in AD or SQ);
\* the logic error arises only for an SQ value of another type, and then the
\* run has failed at that attempt with nothing written for it.
C16_UnknownDropped ==
    /\ \A x \in 1..Len(output) :
          /\ SetOf(output[x].keys) \cap UnknownKeysOf(InputOf(output[x])) = {}
          /\ Len(output[x].keys) =
                Len(InputOf(output[x]).keys)
                    - Cardinality(UnknownKeysOf(InputOf(output[x])))
    /\ (pc = "failed" /\ Unwrap(err).kind = "panic") =>
          \/ HasValue(source[rec_no], "AD")
          \/ HasValue(source[rec_no], "SQ")
          \/ {"GQ", "SQ"} \subseteq SetOf(source[rec_no].keys)
    /\ (pc = "failed" /\ err = LogicError) => SqOfOtherType(source[rec_no])
    /\ \A a \in 1..Len(attempts) :
          SqOfOtherType(source[attempts[a][1]]) =>
              /\ pc = "failed"
              /\ Unwrap(err).kind = "panic"
              /\ a = Len(attempts)
              /\ \A x \in 1..Len(output) :
                    <<output[x].record_no, output[x].allele_no>> # attempts[a]

C16_Witness ==
    /\ pc = "done"
    /\ \E x \in 1..Len(output) :
          /\ InputOf(output[x]).keys = <<"GT", "XX", "DP">>
          /\ output[x].keys = <<"GT", "DP">>

(***************************************************************************)
(* Termination, the limit and the counter.  The loop is sequential code    *)
(* that runs on until it returns, so some step is taken whenever one is    *)
(* possible: SpecFair.  The limit and the counter are checked under Spec.  *)
(***************************************************************************)
\* Sources of up to MaxRecords records, each with no allele, with MaxAlts
\* alleles "A", or with the alleles "A" and "*"; no limit, or the limit 1.
FairAlts == {<<>>, [i \in 1..MaxAlts |-> "A"], <<"A", "*">>}

InitFair ==
    \E limit \in {None, Some(1)}, altss \in SeqsOf(FairAlts, 0, MaxRecords) :
        InitWith(limit, OneSample, LoopSource(altss))

SpecFair == InitFair /\ [][Next]_vars /\ WF_vars(Next)

\* C17: every run ends, in Done unless a failure ended it; and a run without a
\* limit that is Done has read every record of the source and attempted every
\* alternate allele of every record, in order.
C17_Termination ==
    /\ <>(pc = "done" \/ pc = "failed")
    /\ []((pc = "done" /\ ~IsSome(max_var_count)) =>
             /\ stop_reason = "exhausted"
             /\ rec_no = Len(source)
             /\ \A r \in 1..Len(source) :
                   AttemptsOf(r) = UpTo(Len(source[r].alts)))

C17_Witness ==
    /\ pc = "done"
    /\ ~IsSome(max_var_count)
    /\ Len(source) = 2
    /\ attempts = <<<<1, 1>>, <<1, 2>>, <<2, 1>>, <<2, 2>>>>

StarAttempts == {a \in 1..Len(attempts) : source[attempts[a][1]].alts[attempts[a][2]] = "*"}

\* C19: the counter is the number of written records; a step that writes a
\* record adds one record and one to the counter, every other step leaves both
\* alone; the attempt of a "*" allele writes and counts nothing.
C19_Counter ==
    /\ [](/\ total_written = Len(output)
          /\ \A x \in 1..Len(output) : output[x].alts # <<"*">>
          /\ total_written <= Len(attempts) - Cardinality(StarAttempts))
    /\ [][\/ output' = output /\ total_written' = total_written
          \/ /\ Len(output') = Len(output) + 1
             /\ SubSeq(output', 1, Len(output)) = output
             /\ total_written' = total_written + 1]_vars
    /\ [][(pc = "alleles" /\ allele_idx < Len(source[rec_no].alts)
              /\ source[rec_no].alts[allele_idx + 1] = "*")
            => (output' = output /\ total_written' = total_written)]_vars

C19_Witness ==
    /\ total_written = 2
    /\ Len(output) = 2
    /\ attempts = <<<<1, 1>>, <<1, 2>>, <<2, 1>>>>
    /\ source[1].alts = <<"A", "*">>

\* The slot of `key` in sample j of a record (input or output).
SlotOf(rec, j, key) == rec.samples[j][IndexOf(rec.keys, key)]

\* The record has an AD value that is no array of integers, beside an integer DP.
AdOfOtherType(rec) ==
    /\ HasValue(rec, "AD")
    /\ ValueOf(rec, "AD").t # "ArrayInteger"
    /\ HasValue(rec, "DP")
    /\ ValueOf(rec, "DP").t = "Integer"

\* The keys whose present value transform_format_value declines, for record rec.
DeclinedKeys(rec) ==
    {k \in {"GQ", "DP", "PS"} : HasValue(rec, k)}
    \cup (IF AdOfOtherType(rec) THEN {"AD"} ELSE {})

\* C20: in every written record, for every allele number and every sample, a
\* present GQ, DP or PS value and an AD value that is no array of integers are
\* the input values, unchanged; once an allele of a record with an SQ value
\* that is neither a float nor an array of floats has been attempted, the run
\* has failed, with the logic error unless AD has panicked before.
C20_DeclinedCopied ==
    /\ \A x \in 1..Len(output) :
          \A k \in DeclinedKeys(InputOf(output[x])) :
              /\ Contains(output[x].keys, k)
              /\ \A j \in 1..Len(output[x].samples) :
                    SlotOf(output[x], j, k) =
                        SlotOf(InputOf(output[x]), idx_output_to_input[j] + 1, k)
    /\ \A a \in 1..Len(attempts) :
          SqOfOtherType(source[attempts[a][1]]) =>
              /\ pc = "failed"
              /\ Unwrap(err).kind = "panic"
              /\ (~HasValue(source[attempts[a][1]], "AD")
                    \/ AdOfOtherType(source[attempts[a][1]])) => err = LogicError

\* For allele 2, the integer AD is written as it was read, with GQ, DP and PS.
C20_Witness ==
    \E x \in 1..Len(output) :
        /\ output[x].allele_no = 2
        /\ InputOf(output[x]).keys = <<"GT", "GQ", "DP", "AD", "PS">>
        /\ output[x].samples[1] =
              <<StrSlot(<<"0", "/", "0">>), IntSlot(50), IntSlot(30), IntSlot(7), IntSlot(1)>>

(***************************************************************************)
(* The output keys of a record with both GQ and SQ.                        *)
(***************************************************************************)
InvalidKeys == Error("panic", "invalid keys")

\* C21: for every record of which an allele has been attempted, the output
\* keys that copy_format maps from the record's known input keys hold no key
\* twice, and the run never fails because the keys cannot be constructed; this
\* also for a record that has both GQ and SQ.
C21_NoDuplicateKeys ==
    /\ \A a \in 1..Len(attempts) :
          \A i, j \in 1..Len(mapped_output_keys(Unwrap(known_format_keys),
                                                source[attempts[a][1]].keys)) :
              mapped_output_keys(Unwrap(known_format_keys),
                                 source[attempts[a][1]].keys)[i]
                  = mapped_output_keys(Unwrap(known_format_keys),
                                       source[attempts[a][1]].keys)[j]
              => i = j
    /\ ~(pc = "failed" /\ err = InvalidKeys)

(***************************************************************************)
(* SpecStar: one record whose alternate alleles are "A" or "*", with FORMAT *)
(* values that are fine for every allele, fatal for every allele, or fatal  *)
(* from some allele number on (arrays of one to MaxArrayLen elements).      *)
(***************************************************************************)
StarAlts == SeqsOf({"A", "*"}, 1, MaxAlts)

StarGts == {<<"0", "/", "1">>, <<".", "/", ".">>, <<"0", "1">>, <<"/">>}

FilledInts == {[i \in 1..n |-> Some(8)] : n \in 1..MaxArrayLen}

FilledFloats == {[i \in 1..n |-> Some("q1")] : n \in 1..MaxArrayLen}

StarRecords ==
    {MkRecord("GL000192.1", 100, alts, <<"GT">>, <<<<StrSlot(g)>>>>) :
        alts \in StarAlts, g \in StarGts}
    \cup {MkRecord("GL000192.1", 100, alts, <<"GT", "AD">>,
                   <<<<StrSlot(<<"0", "/", "1">>), Some(ArrayIntegerV(a))>>>>) :
             alts \in StarAlts, a \in FilledInts}
    \cup {MkRecord("GL000192.1", 100, alts, <<"GT", "DP", "AD">>,
                   <<<<StrSlot(<<"0", "/", "1">>), d, Some(ArrayIntegerV(a))>>>>) :
             alts \in StarAlts, d \in {None, IntSlot(30)}, a \in FilledInts}
    \cup {MkRecord("GL000192.1", 100, alts, <<"GT", "SQ">>,
                   <<<<StrSlot(<<"0", "/", "1">>), Some(ArrayFloatV(a))>>>>) :
             alts \in StarAlts, a \in FilledFloats}

InitStar == \E rec \in StarRecords : InitWith(None, OneSample, <<rec>>)

SpecStar == InitStar /\ [][Next]_vars

\* The FORMAT values of the record are fatal for allele number n: a malformed
\* GT, an AD without an integer DP, an AD array with no element n (0-based) or
\* an SQ array with no element n - 1 (0-based).
FatalAt(rec, n) ==
    \/ FatalFormat(rec)
    \/ /\ HasValue(rec, "AD")
       /\ ValueOf(rec, "AD").t = "ArrayInteger"
       /\ Len(ValueOf(rec, "AD").a) <= n
    \/ /\ HasValue(rec, "SQ")
       /\ ValueOf(rec, "SQ").t = "ArrayFloat"
       /\ Len(ValueOf(rec, "SQ").fa) < n

\* The attempts made at a "*" allele.
StarAttemptsOf(rec_i) ==
    {a \in 1..Len(attempts) :
        attempts[a][1] = rec_i /\ source[rec_i].alts[attempts[a][2]] = "*"}

\* C22: the genotypes are copied for a "*" allele as for any other.  Once a "*"
\* allele has been attempted whose FORMAT values are fatal for its allele
\* number, the run has failed with a panic at that attempt; a "*" allele whose
\* values are not fatal is passed over and the run goes on.  In both cases no
\* store is queried and no record is written for the "*" allele.
C22_StarAlleleFails ==
    \A r \in 1..Len(source) : \A a \in StarAttemptsOf(r) :
        /\ FatalAt(source[r], attempts[a][2]) =>
              /\ pc = "failed"
              /\ IsSome(err) /\ Unwrap(err).kind = "panic"
              /\ a = Len(attempts)
        /\ ~FatalAt(source[r], attempts[a][2]) =>
              ~(pc = "failed" /\ a = Len(attempts))
        /\ \A x \in 1..Len(output) :
              <<output[x].record_no, output[x].allele_no>> # attempts[a]
        /\ \A l \in 1..Len(lookups) :
              <<lookups[l].record_no, lookups[l].allele_no>> # attempts[a]

\* Allele 1 is written; the "*" allele 2 then fails on an AD array of two
\* elements, though its record would not have been written.
C22_Witness ==
    /\ pc = "failed"
    /\ IsSome(err) /\ Unwrap(err).kind = "panic"
    /\ Len(source) = 1
    /\ source[1].alts = <<"A", "*">>
    /\ HasValue(source[1], "AD") /\ Len(ValueOf(source[1], "AD").a) = 2
    /\ attempts = <<<<1, 1>>, <<1, 2>>>>
    /\ Len(output) = 1

(***************************************************************************)
(* sv_query: the background database records                               *)
(* (src/src/sv_query/dbrecords.rs).  A FileRecord is a record of its TSV   *)
(* columns; an SV type string is a sequence of pieces, a piece being a     *)
(* separator (":" or ";") or a run of characters without one.  A           *)
(* Result<Option<Record>> is [kind |-> "ok", val |-> Option] or            *)
(* [kind |-> "err", val |-> None].                                         *)
(***************************************************************************)
MaxPos == 3

DbOk(opt) == [kind |-> "ok", val |-> opt]
DbErr == [kind |-> "err", val |-> None]

\* str.split(sep).next().unwrap(): the part before the first separator.
first_part(str, sep) ==
    IF \E i \in 1..Len(str) : str[i] = sep
    THEN SubSeq(str, 1,
                (CHOOSE i \in 1..Len(str) :
                    str[i] = sep /\ \A j \in 1..(i - 1) : str[j] # sep) - 1)
    ELSE str

\* serde_json::from_str::<SvType> of the quoted name: the variant that has
\* this name, an error for every other string.
SvTypeNames ==
    [DEL |-> "Del", DUP |-> "Dup", INV |-> "Inv", INS |-> "Ins", BND |-> "Bnd",
     CNV |-> "Cnv"]

sv_type_from_json(name) ==
    IF Len(name) = 1 /\ name[1] \in DOMAIN SvTypeNames
    THEN Some(SvTypeNames[name[1]]) ELSE None

bg_sv_to_in_memory(r) ==
    IF IsSome(sv_type_from_json(first_part(r.sv_type, ":")))
    THEN DbOk(Some([begin |-> r.start - 1, end |-> r.end,
                    sv_type |-> Unwrap(sv_type_from_json(first_part(r.sv_type, ":"))),
                    carriers |-> r.carriers, carriers_het |-> r.carriers_het,
                    carriers_hom |-> r.carriers_hom,
                    carriers_hemi |-> r.carriers_hemi]))
    ELSE DbErr

\* The record of the kinds whose Record has the fields begin, end, sv_type and
\* carriers.
CarrierRecord(begin, end, sv_type, carriers) ==
    DbOk(Some([begin |-> begin, end |-> end, sv_type |-> sv_type,
               carriers |-> carriers]))

dbvar_to_in_memory(r) ==
    CASE first_part(r.sv_type, ";") \in
             {<<"alu_insertion">>, <<"herv_insertion">>, <<"insertion">>,
              <<"line1_insertion">>, <<"mobile_element_insertion">>,
              <<"novel_sequence_insertion">>, <<"sva_insertion">>} ->
             CarrierRecord(r.start - 1, r.end, "Ins", r.num_carriers)
      [] first_part(r.sv_type, ";") \in
             {<<"copy_number_gain">>, <<"duplication">>, <<"tandem_duplication">>} ->
             CarrierRecord(r.start - 1, r.end, "Dup", r.num_carriers)
      [] first_part(r.sv_type, ";") \in
             {<<"alu_deletion">>, <<"copy_number_loss">>, <<"deletion">>,
              <<"herv_deletion">>, <<"line1_deletion">>, <<"sva_deletion">>} ->
             CarrierRecord(r.start - 1, r.end, "Del", r.num_carriers)
      [] first_part(r.sv_type, ";") = <<"copy_number_variation">> ->
             CarrierRecord(r.start - 1, r.end, "Cnv", r.num_carriers)
      [] OTHER -> DbErr

gnomad_sv_to_in_memory(r) ==
    CASE r.svtype = <<"CPX">> -> DbOk(None)
      [] r.svtype \in {<<"CTX">>, <<"BND">>} ->
             CarrierRecord(r.start - 1, r.end, "Bnd", r.n_homalt + r.n_het)
      [] r.svtype = <<"DEL">> ->
             CarrierRecord(r.start - 1, r.end, "Del", r.n_homalt + r.n_het)
      [] r.svtype = <<"DUP">> ->
             CarrierRecord(r.start - 1, r.end, "Dup", r.n_homalt + r.n_het)
      [] r.svtype = <<"INS">> ->
             CarrierRecord(r.start - 1, r.end, "Ins", r.n_homalt + r.n_het)
      [] r.svtype = <<"INV">> ->
             CarrierRecord(r.start - 1, r.end, "Inv", r.n_homalt + r.n_het)
      [] r.svtype = <<"MCNV">> ->
             CarrierRecord(r.start - 1, r.end, "Cnv", r.n_homalt + r.n_het)
      [] OTHER -> DbErr

AlleleRecord(begin, end, sv_type, alleles) ==
    DbOk(Some([begin |-> begin, end |-> end, sv_type |-> sv_type,
               alleles |-> alleles]))

g1k_sv_to_in_memory(r) ==
    CASE r.sv_type = <<"CNV">> ->
             AlleleRecord(r.start - 1, r.end, "Cnv", r.num_var_alleles)
      [] r.sv_type = <<"DEL">> ->
             AlleleRecord(r.start - 1, r.end, "Del", r.num_var_alleles)
      [] r.sv_type \in {<<"DEL_ALU">>, <<"DEL_HERV">>, <<"DEL_LINE1">>, <<"DEL_SVA">>} ->
             AlleleRecord(r.start - 1, r.end, "Del", r.num_var_alleles)
      [] r.sv_type = <<"DUP">> ->
             AlleleRecord(r.start - 1, r.end, "Dup", r.num_var_alleles)
      [] r.sv_type = <<"INV">> ->
             AlleleRecord(r.start - 1, r.end, "Inv", r.num_var_alleles)
      [] r.sv_type \in {<<"ALU">>, <<"INS">>, <<"LINE1">>, <<"SVA">>} ->
             AlleleRecord(r.start - 1, r.end, "Ins", r.num_var_alleles)
      [] OTHER -> DbErr

dgv_to_in_memory(r) ==
    CASE r.sv_type \in
             {<<"alu deletion">>, <<"deletion">>, <<"herv deletion">>,
              <<"line1 deletion">>, <<"mobile element deletion">>, <<"loss">>,
              <<"sva deletion">>} ->
             CarrierRecord(r.start - 1, r.end, "Del",
                           r.observed_gains + r.observed_losses)
      [] r.sv_type \in
             {<<"alu insertion">>, <<"herv insertion">>, <<"insertion">>,
              <<"line1 insertion">>, <<"mobile element insertion">>,
              <<"novel sequence insertion">>, <<"sva insertion">>} ->
             CarrierRecord(r.start - 1, r.end, "Ins",
                           r.observed_gains + r.observed_losses)
      [] r.sv_type \in {<<"duplication">>, <<"gain">>, <<"tandem duplication">>} ->
             CarrierRecord(r.start - 1, r.end, "Dup",
                           r.observed_gains + r.observed_losses)
      [] r.sv_type \in {<<"sequence alteration">>, <<"complex">>} -> DbOk(None)
      [] r.sv_type \in {<<"gain+loss">>, <<"CNV">>} ->
             CarrierRecord(r.start - 1, r.end, "Cnv",
                           r.observed_gains + r.observed_losses)
      [] r.sv_type = <<"inversion">> ->
             CarrierRecord(r.start - 1, r.end, "Inv",
                           r.observed_gains + r.observed_losses)
      [] r.sv_type = <<"OTHER">> -> DbOk(None)
      [] OTHER -> DbErr

\* begin is the 1-based start.
dgv_gs_to_in_memory_one_based(r) ==
    CASE r.sv_sub_type = <<"Gain">> ->
             CarrierRecord(r.start_outer, r.end_outer, "Dup", r.num_carriers)
      [] r.sv_sub_type = <<"Loss">> ->
             CarrierRecord(r.start_outer, r.end_outer, "Del", r.num_carriers)
      [] OTHER -> DbErr

dgv_gs_to_in_memory(r) ==
    CASE r.sv_sub_type = <<"Gain">> ->
             CarrierRecord(r.start_outer - 1, r.end_outer, "Dup", r.num_carriers)
      [] r.sv_sub_type = <<"Loss">> ->
             CarrierRecord(r.start_outer - 1, r.end_outer, "Del", r.num_carriers)
      [] OTHER -> DbErr

exac_cnv_to_in_memory(r) ==
    CASE r.sv_type = <<"duplication">> -> CarrierRecord(r.start - 1, r.end, "Dup", 1)
      [] r.sv_type = <<"deletion">> -> CarrierRecord(r.start - 1, r.end, "Del", 1)
      [] OTHER -> DbErr

\* ToInMemory::to_in_memory of the FileRecord of module `kind`.
to_in_memory(kind, r) ==
    CASE kind = "bg_sv" -> bg_sv_to_in_memory(r)
      [] kind = "dbvar" -> dbvar_to_in_memory(r)
      [] kind = "gnomad_sv" -> gnomad_sv_to_in_memory(r)
      [] kind = "g1k_sv" -> g1k_sv_to_in_memory(r)
      [] kind = "dgv" -> dgv_to_in_memory(r)
      [] kind = "dgv_gs" -> dgv_gs_to_in_memory(r)
      [] kind = "exac_cnv" -> exac_cnv_to_in_memory(r)

\* ChromosomeCoordinate for FileRecord: begin(), start() and end().
coordinate_begin(kind, r) ==
    IF kind = "dgv_gs" THEN r.start_outer - 1 ELSE r.start - 1

coordinate_start(kind, r) ==
    IF kind = "dgv_gs" THEN r.start_outer ELSE r.start

coordinate_end(kind, r) ==
    IF kind = "dgv_gs" THEN r.end_outer ELSE r.end

(***************************************************************************)
(* SpecDb: one file record of any kind, with 1-based start and end         *)
(* positions up to MaxPos and any of the SV type strings below, is         *)
(* converted by to_in_memory.                                              *)
(***************************************************************************)
DbKinds == {"bg_sv", "dbvar", "gnomad_sv", "g1k_sv", "dgv", "dgv_gs", "exac_cnv"}

\* Every type name some kind knows, names no kind knows, and names with a
\* ":" or ";" part behind them.
DbTypeNames ==
    {"DEL", "DUP", "INV", "INS", "BND", "CNV", "CPX", "CTX", "MCNV",
     "DEL_ALU", "DEL_HERV", "DEL_LINE1", "DEL_SVA", "ALU", "LINE1", "SVA",
     "alu_insertion", "herv_insertion", "insertion", "line1_insertion",
     "mobile_element_insertion", "novel_sequence_insertion", "sva_insertion",
     "copy_number_gain", "duplication", "tandem_duplication",
     "alu_deletion", "copy_number_loss", "deletion", "herv_deletion",
     "line1_deletion", "sva_deletion", "copy_number_variation",
     "alu deletion", "herv deletion", "line1 deletion", "mobile element deletion",
     "loss", "sva deletion", "alu insertion", "herv insertion", "line1 insertion",
     "mobile element insertion", "novel sequence insertion", "sva insertion",
     "gain", "tandem duplication", "sequence alteration", "complex", "gain+loss",
     "inversion", "OTHER", "Gain", "Loss", "del", "UNK"}

DbTypeStrings ==
    {<<n>> : n \in DbTypeNames}
    \cup {<<n, sep, "x">> : n \in {"DEL", "deletion"}, sep \in {":", ";"}}
    \cup {<<>>}

Positions == 1..MaxPos

DbFileRecord(kind, start, end, type) ==
    CASE kind = "bg_sv" ->
             [release |-> "GRCh37", chromosome |-> "1", start |-> start,
              chromosome2 |-> "1", end |-> end, pe_orientation |-> "3to5",
              sv_type |-> type, carriers |-> 3, carriers_het |-> 2,
              carriers_hom |-> 1, carriers_hemi |-> 0]
      [] kind = "dbvar" ->
             [release |-> "GRCh37", chromosome |-> "1", start |-> start, end |-> end,
              num_carriers |-> 3, sv_type |-> type]
      [] kind = "gnomad_sv" ->
             [release |-> "GRCh37", chromosome |-> "1", start |-> start, end |-> end,
              svtype |-> type, n_homalt |-> 1, n_het |-> 2]
      [] kind = "g1k_sv" ->
             [release |-> "GRCh37", chromosome |-> "1", start |-> start, end |-> end,
              sv_type |-> type, num_var_alleles |-> 3]
      [] kind = "dgv" ->
             [release |-> "GRCh37", chromosome |-> "1", start |-> start, end |-> end,
              sv_type |-> type, observed_gains |-> 1, observed_losses |-> 2]
      [] kind = "dgv_gs" ->
             [release |-> "GRCh37", chromosome |-> "1", start_outer |-> start,
              end_outer |-> end, sv_sub_type |-> type, num_carriers |-> 3]
      [] kind = "exac_cnv" ->
             [release |-> "GRCh37", chromosome |-> "1", start |-> start, end |-> end,
              sv_type |-> type]

InitDb ==
    /\ \E kind \in DbKinds, start \in Positions, end \in Positions,
          type \in DbTypeStrings :
          file_record = Some([kind |-> kind,
                              rec |-> DbFileRecord(kind, start, end, type)])
    /\ in_memory = None
    /\ max_var_count = None
    /\ sample_names = OneSample
    /\ source = <<>>
    /\ idx_output_to_input = <<>>
    /\ known_format_keys = None
    /\ rec_no = 0
    /\ pc = "start"
    /\ allele_idx = 0
    /\ total_written = 0
    /\ output = <<>>
    /\ attempts = <<>>
    /\ lookups = <<>>
    /\ err = None
    /\ stop_reason = "running"

\* The file record is converted for the in-memory database.
ToInMemory ==
    /\ IsSome(file_record)
    /\ ~IsSome(in_memory)
    /\ in_memory' = Some(to_in_memory(Unwrap(file_record).kind, Unwrap(file_record).rec))
    /\ UNCHANGED <<file_record, max_var_count, sample_names, source,
                   idx_output_to_input, known_format_keys, rec_no, pc, allele_idx,
                   total_written, output, attempts, lookups, err, stop_reason>>

NextDb == ToInMemory

SpecDb == InitDb /\ [][NextDb]_vars

\* The SV type string of a file record, and the name in it that stands for the
\* type: the part before the first ":" (in-house) or ";" (dbVar), else all.
TypeStringOf(kind, r) ==
    CASE kind = "gnomad_sv" -> r.svtype
      [] kind = "dgv_gs" -> r.sv_sub_type
      [] OTHER -> r.sv_type

TypeNameOf(kind, r) ==
    LET str == TypeStringOf(kind, r)
        sep == CASE kind = "bg_sv" -> ":" [] kind = "dbvar" -> ";" [] OTHER -> "none"
        cut == {i \in 1..Len(str) : str[i] = sep}
    IN  IF cut = {} THEN str
        ELSE SubSeq(str, 1, (CHOOSE i \in cut : \A j \in cut : i <= j) - 1)

\* The names that each kind of file writes for each SV type; "none" collects
\* the names of SV types that have no correspondence.
NamesOf(kind, type) ==
    CASE kind = "bg_sv" ->
             (CASE type = "Del" -> {"DEL"} [] type = "Dup" -> {"DUP"}
                [] type = "Inv" -> {"INV"} [] type = "Ins" -> {"INS"}
                [] type = "Bnd" -> {"BND"} [] type = "Cnv" -> {"CNV"}
                [] OTHER -> {})
      [] kind = "dbvar" ->
             (CASE type = "Ins" -> {"alu_insertion", "herv_insertion", "insertion",
                                    "line1_insertion", "mobile_element_insertion",
                                    "novel_sequence_insertion", "sva_insertion"}
                [] type = "Dup" -> {"copy_number_gain", "duplication",
                                    "tandem_duplication"}
                [] type = "Del" -> {"alu_deletion", "copy_number_loss", "deletion",
                                    "herv_deletion", "line1_deletion", "sva_deletion"}
                [] type = "Cnv" -> {"copy_number_variation"}
                [] OTHER -> {})
      [] kind = "gnomad_sv" ->
             (CASE type = "Bnd" -> {"CTX", "BND"} [] type = "Del" -> {"DEL"}
                [] type = "Dup" -> {"DUP"} [] type = "Ins" -> {"INS"}
                [] type = "Inv" -> {"INV"} [] type = "Cnv" -> {"MCNV"}
                [] type = "none" -> {"CPX"}
                [] OTHER -> {})
      [] kind = "g1k_sv" ->
             (CASE type = "Cnv" -> {"CNV"}
                [] type = "Del" -> {"DEL", "DEL_ALU", "DEL_HERV", "DEL_LINE1", "DEL_SVA"}
                [] type = "Dup" -> {"DUP"} [] type = "Inv" -> {"INV"}
                [] type = "Ins" -> {"ALU", "INS", "LINE1", "SVA"}
                [] OTHER -> {})
      [] kind = "dgv" ->
             (CASE type = "Del" -> {"alu deletion", "deletion", "herv deletion",
                                    "line1 deletion", "mobile element deletion",
                                    "loss", "sva deletion"}
                [] type = "Ins" -> {"alu insertion", "herv insertion", "insertion",
                                    "line1 insertion", "mobile element insertion",
                                    "novel sequence insertion", "sva insertion"}
                [] type = "Dup" -> {"duplication", "gain", "tandem duplication"}
                [] type = "Cnv" -> {"gain+loss", "CNV"}
                [] type = "Inv" -> {"inversion"}
                [] type = "none" -> {"sequence alteration", "complex", "OTHER"}
                [] OTHER -> {})
      [] kind = "dgv_gs" ->
             (CASE type = "Dup" -> {"Gain"} [] type = "Del" -> {"Loss"} [] OTHER -> {})
      [] kind = "exac_cnv" ->
             (CASE type = "Dup" -> {"duplication"} [] type = "Del" -> {"deletion"}
                [] OTHER -> {})

SvTypes == {"Del", "Dup", "Inv", "Ins", "Bnd", "Cnv"}

\* The name of the file record stands for SV type `type` ("none": for an SV
\* type without correspondence).
StandsFor(kind, r, type) ==
    /\ Len(TypeNameOf(kind, r)) = 1
    /\ TypeNameOf(kind, r)[1] \in NamesOf(kind, type)

\* C23: for a file record of any kind with a 1-based start, a record that
\* to_in_memory yields has begin = start - 1 and end = end, which are begin()
\* and end() of the file record, and begin() = start() - 1; its SV type is the
\* one the file record's name stands for.  A name of an SV type without
\* correspondence yields Ok(None), and a name that stands for nothing yields
\* an error: a record is yielded for no other name than those of its SV type.
C23_InMemoryCoordinates ==
    (IsSome(file_record) /\ IsSome(in_memory)) =>
        LET kind == Unwrap(file_record).kind
            r == Unwrap(file_record).rec
            res == Unwrap(in_memory)
        IN  /\ coordinate_begin(kind, r) = coordinate_start(kind, r) - 1
            /\ (res.kind = "ok" /\ IsSome(res.val)) =>
                  /\ Unwrap(res.val).begin = coordinate_start(kind, r) - 1
                  /\ Unwrap(res.val).begin = coordinate_begin(kind, r)
                  /\ Unwrap(res.val).end = coordinate_end(kind, r)
                  /\ Unwrap(res.val).begin >= 0
                  /\ Unwrap(res.val).sv_type \in SvTypes
                  /\ StandsFor(kind, r, Unwrap(res.val).sv_type)
            /\ StandsFor(kind, r, "none") => res = DbOk(None)
            /\ (\A t \in SvTypes \cup {"none"} : ~StandsFor(kind, r, t)) => res = DbErr
            /\ (\E t \in SvTypes : StandsFor(kind, r, t)) =>
                  res.kind = "ok" /\ IsSome(res.val)

\* A DGV gold standard record with the outer positions MaxPos..2 becomes a
\* record that begins at MaxPos - 1 and ends at 2.
C23_Witness ==
    /\ IsSome(file_record) /\ IsSome(in_memory)
    /\ Unwrap(file_record).kind = "dgv_gs"
    /\ Unwrap(file_record).rec.start_outer = MaxPos
    /\ Unwrap(file_record).rec.end_outer = 2
    /\ Unwrap(in_memory).kind = "ok"
    /\ IsSome(Unwrap(in_memory).val)
    /\ Unwrap(Unwrap(in_memory).val).begin = MaxPos - 1
    /\ Unwrap(Unwrap(in_memory).val).end = 2
    /\ Unwrap(Unwrap(in_memory).val).sv_type = "Del"
====
